---------------------------- MODULE Spec2Model ----------------------------
(***************************************************************************)
(* RepoToXML (src/index.js): the recursive directory walk (walkDir), the   *)
(* two serializers (buildXmlTree, buildTxtOutput) and the interactive      *)
(* session (main, runApp).                                                 *)
(*                                                                         *)
(* A JavaScript string is a sequence of one-character strings, so that     *)
(* String.prototype.includes, endsWith, path.join and the markup escaping  *)
(* are computed character by character.                                    *)
(***************************************************************************)
EXTENDS Integers, Sequences, FiniteSets, TLC

(***************************************************************************)
(* Bounds of the model.                                                    *)
(***************************************************************************)
\* entries (files and directories) below the walked directory, walk runs
MaxNodes == 3
\* entries below the walked directory, serializer runs
MaxSerNodes == 3
\* runs of main in one session
MaxRuns == 2

(***************************************************************************)
(* Strings.                                                                *)
(***************************************************************************)
SLASH == "/"
NL == "\n"

\* s1 + s2 + ... for a sequence of strings
RECURSIVE Concat(_)
Concat(ss) == IF ss = << >> THEN << >> ELSE Head(ss) \o Concat(Tail(ss))

\* String.prototype.includes: t occurs in s as a contiguous run of characters
Includes(s, t) ==
  \E i \in 0..(Len(s) - Len(t)) : \A k \in 1..Len(t) : s[i + k] = t[k]

\* String.prototype.endsWith
EndsWith(s, t) ==
  /\ Len(t) <= Len(s)
  /\ \A k \in 1..Len(t) : s[Len(s) - Len(t) + k] = t[k]

\* s.split("/"): the segments between separators, empty ones included
RECURSIVE SplitAcc(_, _, _)
SplitAcc(s, cur, acc) ==
  IF s = << >> THEN Append(acc, cur)
  ELSE IF Head(s) = SLASH THEN SplitAcc(Tail(s), << >>, Append(acc, cur))
  ELSE SplitAcc(Tail(s), Append(cur, Head(s)), acc)

Split(s) == SplitAcc(s, << >>, << >>)

\* segs.join("/")
RECURSIVE JoinSegs(_)
JoinSegs(segs) ==
  IF segs = << >> THEN << >>
  ELSE IF Len(segs) = 1 THEN segs[1]
  ELSE segs[1] \o <<SLASH>> \o JoinSegs(Tail(segs))

(***************************************************************************)
(* Node's posix path module, as used at src/index.js lines 126, 127, 187,  *)
(* 189 and 203.                                                            *)
(***************************************************************************)
DOT == <<".">>
DOTDOT == <<".", ".">>

\* normalizeString: drops "" and ".", resolves ".." against the segment before
RECURSIVE NormalizeSegs(_, _, _)
NormalizeSegs(segs, allowAbove, acc) ==
  IF segs = << >> THEN acc
  ELSE LET s == Head(segs) IN
    IF s = << >> \/ s = DOT THEN NormalizeSegs(Tail(segs), allowAbove, acc)
    ELSE IF s = DOTDOT THEN
      IF acc # << >> /\ acc[Len(acc)] # DOTDOT
        THEN NormalizeSegs(Tail(segs), allowAbove, SubSeq(acc, 1, Len(acc) - 1))
      ELSE IF allowAbove
        THEN NormalizeSegs(Tail(segs), allowAbove, Append(acc, s))
      ELSE NormalizeSegs(Tail(segs), allowAbove, acc)
    ELSE NormalizeSegs(Tail(segs), allowAbove, Append(acc, s))

IsAbsolute(p) == p # << >> /\ p[1] = SLASH

\* path.normalize
PathNormalize(p) ==
  IF p = << >> THEN DOT
  ELSE LET abs == IsAbsolute(p)
           trailing == p[Len(p)] = SLASH
           body == JoinSegs(NormalizeSegs(Split(p), ~abs, << >>))
       IN IF body = << >>
            THEN (IF abs THEN <<SLASH>> ELSE IF trailing THEN <<".", SLASH>> ELSE DOT)
            ELSE (IF abs THEN <<SLASH>> ELSE << >>) \o body
                   \o (IF trailing THEN <<SLASH>> ELSE << >>)

\* path.join(a, b): the non-empty arguments joined by "/", then normalized
PathJoin(a, b) ==
  IF a = << >> /\ b = << >> THEN DOT
  ELSE IF a = << >> THEN PathNormalize(b)
  ELSE IF b = << >> THEN PathNormalize(a)
  ELSE PathNormalize(a \o <<SLASH>> \o b)

\* path.resolve(p) in working directory cwd, as its segments below "/"
ResolveSegs(cwd, p) ==
  IF IsAbsolute(p) THEN NormalizeSegs(Split(p), FALSE, << >>)
  ELSE NormalizeSegs(Split(cwd \o <<SLASH>> \o p), FALSE, << >>)

RECURSIVE CommonPrefixLen(_, _)
CommonPrefixLen(a, b) ==
  IF a = << >> \/ b = << >> \/ Head(a) # Head(b) THEN 0
  ELSE 1 + CommonPrefixLen(Tail(a), Tail(b))

\* path.relative(from, to), from being the working directory
PathRelative(from, to) ==
  LET f == ResolveSegs(from, from)
      t == ResolveSegs(from, to)
      c == CommonPrefixLen(f, t)
  IN JoinSegs([i \in 1..(Len(f) - c) |-> DOTDOT] \o SubSeq(t, c + 1, Len(t)))


(***************************************************************************)
(* Program constants and sample inputs.                                    *)
(***************************************************************************)
\* process.cwd()
Cwd == <<"/", "w">>
\* 'temp_repo' (lines 203 and 280)
TempRepoName == <<"t", "e", "m", "p", "_", "r", "e", "p", "o">>
\* path.join(process.cwd(), 'temp_repo') (line 203)
TempDir == PathJoin(Cwd, TempRepoName)

\* directories handed to walkDir: the clone directory and the working directory
WalkRoots == {TempDir, DOT}
\* entry names: one a token can match in part, one it cannot
WalkNames == {<<"a", "g">>, <<"b">>}
\* exclusion lists: a token matching part of a name, and a list whose first
\* token differs from every path in case only and whose second token spans
\* a separator
ExcludeSamples ==
  { << <<"g">> >>, << <<"G">>, <<"b", "/", "a">> >> }
\* file bodies of one and of two bytes
WalkContents == {<<"h">>, <<"h", "i">>}
\* fileSizeLimit values: each sample body is over, at or under one of them
SizeLimits == {1, 2}

(***************************************************************************)
(* The file system below the walked directory: a sequence of entries in    *)
(* creation order, entry j lying in directory fs[j].parent (0: the walked  *)
(* directory itself).  A directory lists its entries in creation order.    *)
(***************************************************************************)
VARIABLES
  fs,             \* the entries below the walked directory
  dir,            \* walkDir's argument dir
  excludes,       \* walkDir's argument excludes
  fileSizeLimit,  \* walkDir's argument fileSizeLimit
  phase,          \* "setup", "walked", "txt", "xml"
  walk,           \* what walkDir did: [files, visited, threw, listed]
  txt,            \* buildTxtOutput's result
  xml             \* buildXmlTree's document and its serialization

coreVars == <<fs, dir, excludes, fileSizeLimit, phase, walk, txt, xml>>

(***************************************************************************)
(* The session: runApp's loop and the position of main between two         *)
(* prompts, main's locals, the directories on disk, and what the current   *)
(* run of main has done so far.                                            *)
(***************************************************************************)
VARIABLES
  pc,            \* the prompt awaited, "cloning", "exited" or "crashed"
  runNo,         \* the number of the current run of main
  source,        \* main's local source
  urlValid,      \* whether new URL(url) accepts the url entered
  repoPath,      \* main's local repoPath
  tempExists,    \* whether <cwd>/temp_repo exists
  localDirs,     \* the local directories that exist
  cloned,        \* this run's git.clone succeeded
  sourceFailed,  \* this run's clone failed or its url was rejected
  walkCalls,     \* calls of walkDir in this run
  serCalls,      \* calls of buildTxtOutput and buildXmlTree in this run
  written,       \* this run wrote its output file
  ending         \* how the last run ended, "" while it runs

mainVars == <<pc, runNo, source, urlValid, repoPath, tempExists, localDirs,
              cloned, sourceFailed, walkCalls, serCalls, written, ending>>

FileEntry(p, n, st, bin, rd, c) ==
  [parent |-> p, name |-> n, statOk |-> st, isDir |-> FALSE, listOk |-> FALSE,
   size |-> Len(c), bin |-> bin, readOk |-> rd, content |-> c]

DirEntry(p, n, ls) ==
  [parent |-> p, name |-> n, statOk |-> TRUE, isDir |-> TRUE, listOk |-> ls,
   size |-> 0, bin |-> "text", readOk |-> FALSE, content |-> << >>]

\* fs.readdirSync(dir) when it succeeds: the entries of directory i, in listing order
Readdir(f, i) ==
  SelectSeq([k \in 1..Len(f) |-> k], LAMBDA j : f[j].parent = i)

(***************************************************************************)
(* walkDir (lines 117-168).                                                *)
(***************************************************************************)
\* faulty variant of StatCaught: statSync outside any try block, as in the earlier
\* walkDir kept at lines 396-409
StatNotCaught == FALSE

\* the try/catch blocks around readdirSync, statSync, isBinaryFileSync and
\* readFileSync: TRUE when the error is caught
ReaddirCaught == TRUE
StatCaught == TRUE
BinaryCheckCaught == TRUE
ReadCaught == TRUE

\* faulty variant of IsExcluded: the token is looked for in the entry's name only
IsExcludedByName(excl, relPath) ==
  LET segs == Split(relPath)
  IN \E k \in 1..Len(excl) : Includes(segs[Len(segs)], excl[k])

\* line 128: excludes.some(ex => relPath.includes(ex))
IsExcluded(excl, relPath) ==
  \E k \in 1..Len(excl) : Includes(relPath, excl[k])

\* faulty variant of TooLarge: a file of exactly the limit is skipped too
TooLargeOrEqual(size, limit) == size >= limit

\* line 142: stat.size > fileSizeLimit
TooLarge(size, limit) == size > limit

\* faulty variant of PushNode: the node is put in front (unshift)
UnshiftNode(files, node) == <<node>> \o files

\* files.push(node) (lines 140 and 164)
PushNode(files, node) == Append(files, node)

DirectoryNode(name, path, children) ==
  [type |-> "directory", name |-> name, path |-> path, children |-> children]

FileNode(name, path, content) ==
  [type |-> "file", name |-> name, path |-> path, content |-> content]

\* an exception leaving walkDir
Thrown(acc) == [acc EXCEPT !.threw = TRUE]

RECURSIVE walkDir(_, _, _, _, _, _, _)
RECURSIVE WalkLoop(_, _, _, _, _, _)

\* lines 125-166: the loop over dirEntries; acc holds files, the entries
\* visited so far and whether an exception is propagating
WalkLoop(f, entries, d, excl, limit, acc) ==
  IF entries = << >> \/ acc.threw THEN acc
  ELSE
    LET j == Head(entries)
        e == f[j]
        fullPath == PathJoin(d, e.name)
        relPath == PathRelative(Cwd, fullPath)
        seen == [acc EXCEPT !.visited = Append(@, j)]
        rest == Tail(entries)
    IN
      IF IsExcluded(excl, relPath) THEN WalkLoop(f, rest, d, excl, limit, seen)
      ELSE IF ~e.statOk THEN
        (IF StatCaught THEN WalkLoop(f, rest, d, excl, limit, seen) ELSE Thrown(seen))
      ELSE IF e.isDir THEN
        LET sub == walkDir(f, j, e.listOk, fullPath, excl, limit,
                           [seen EXCEPT !.files = << >>])
        IN IF sub.threw THEN sub
           ELSE WalkLoop(f, rest, d, excl, limit,
                  [sub EXCEPT !.files =
                     PushNode(acc.files, DirectoryNode(e.name, relPath, sub.files))])
      ELSE IF TooLarge(e.size, limit) THEN WalkLoop(f, rest, d, excl, limit, seen)
      ELSE IF e.bin = "fail" THEN
        (IF BinaryCheckCaught THEN WalkLoop(f, rest, d, excl, limit, seen) ELSE Thrown(seen))
      ELSE IF e.bin = "binary" THEN WalkLoop(f, rest, d, excl, limit, seen)
      ELSE IF ~e.readOk THEN
        (IF ReadCaught THEN WalkLoop(f, rest, d, excl, limit, seen) ELSE Thrown(seen))
      ELSE WalkLoop(f, rest, d, excl, limit,
             [seen EXCEPT !.files = PushNode(@, FileNode(e.name, relPath, e.content))])

\* lines 117-124, then the loop: directory i of f, at path d; acc.files is
\* the parameter files
walkDir(f, i, listOk, d, excl, limit, acc) ==
  IF ~listOk THEN (IF ReaddirCaught THEN acc ELSE Thrown(acc))
  ELSE WalkLoop(f, Readdir(f, i), d, excl, limit, acc)

NoWalk == [files |-> << >>, visited |-> << >>, threw |-> FALSE, listed |-> TRUE]

\* walkDir(dir, excludes, fileSizeLimit) as main calls it (line 232)
WalkResult(f, listOk, d, excl, limit) ==
  LET r == walkDir(f, 0, listOk, d, excl, limit,
                   [files |-> << >>, visited |-> << >>, threw |-> FALSE])
  IN [files |-> r.files, visited |-> r.visited, threw |-> r.threw, listed |-> listOk]

(***************************************************************************)
(* The environment: the entries are created one at a time before the walk. *)
(* Entries are created directory by directory (parents in non-decreasing   *)
(* order), so that every file system has one representation; names are     *)
(* unique within a directory.                                              *)
(***************************************************************************)
SiblingNames(f, p) == {f[j].name : j \in {k \in 1..Len(f) : f[k].parent = p}}

Parents(f) ==
  {p \in 0..Len(f) :
     /\ p = 0 \/ f[p].isDir
     /\ f = << >> \/ p >= f[Len(f)].parent}

\* a regular file in its possible conditions: stat fails, the binary check
\* fails or the read fails (on a file within every limit); or the file, of
\* any size, is binary or is readable text
FileConditions(p, names, contents) ==
  {FileEntry(p, n, FALSE, "text", TRUE, <<"h">>) : n \in names}
  \cup {FileEntry(p, n, TRUE, "fail", TRUE, <<"h">>) : n \in names}
  \cup {FileEntry(p, n, TRUE, "text", FALSE, <<"h">>) : n \in names}
  \cup {FileEntry(p, n, TRUE, b, TRUE, c) :
          n \in names, b \in {"binary", "text"}, c \in contents}

CreateFile(bound, names, contents) ==
  /\ phase = "setup"
  /\ Len(fs) < bound
  /\ \E p \in Parents(fs) :
       \E e \in FileConditions(p, names \ SiblingNames(fs, p), contents) :
         fs' = Append(fs, e)
  /\ UNCHANGED <<dir, excludes, fileSizeLimit, phase, walk, txt, xml>>
  /\ UNCHANGED mainVars

CreateDirectory(bound, names, listings) ==
  /\ phase = "setup"
  /\ Len(fs) < bound
  /\ \E p \in Parents(fs) :
       \E n \in names \ SiblingNames(fs, p) : \E ls \in listings :
         fs' = Append(fs, DirEntry(p, n, ls))
  /\ UNCHANGED <<dir, excludes, fileSizeLimit, phase, walk, txt, xml>>
  /\ UNCHANGED mainVars

\* one call walkDir(dir, excludes, fileSizeLimit); the listing of dir itself
\* succeeds or fails
RunWalkDir(listings) ==
  /\ phase = "setup"
  /\ \E listOk \in listings :
       walk' = WalkResult(fs, listOk, dir, excludes, fileSizeLimit)
  /\ phase' = "walked"
  /\ UNCHANGED <<fs, dir, excludes, fileSizeLimit, txt, xml>>
  /\ UNCHANGED mainVars

NoXml == [doc |-> << >>, text |-> << >>]

\* the local directories a user may name: one of them ends in "temp_repo"
LocalPaths == { <<"/", "p">>, <<"/", "m", "y", "_">> \o TempRepoName }

\* no session: runApp is not modelled in the walk and serializer runs
NoSession ==
  /\ pc = "none"
  /\ runNo = 0
  /\ source = ""
  /\ urlValid = FALSE
  /\ repoPath = << >>
  /\ tempExists = FALSE
  /\ localDirs = LocalPaths
  /\ cloned = FALSE
  /\ sourceFailed = FALSE
  /\ walkCalls = 0
  /\ serCalls = 0
  /\ written = FALSE
  /\ ending = ""

CoreInit(roots, excls, limits) ==
  /\ NoSession
  /\ fs = << >>
  /\ dir \in roots
  /\ excludes \in excls
  /\ fileSizeLimit \in limits
  /\ phase = "setup"
  /\ walk = NoWalk
  /\ txt = << >>
  /\ xml = NoXml

vars == <<coreVars, mainVars>>

Init == CoreInit(WalkRoots, ExcludeSamples, SizeLimits)

Next ==
  \/ CreateFile(MaxNodes, WalkNames, WalkContents)
  \/ CreateDirectory(MaxNodes, WalkNames, BOOLEAN)
  \/ RunWalkDir(BOOLEAN)

Spec == Init /\ [][Next]_vars

(***************************************************************************)
(* What the claims speak about, stated on the file system and on the       *)
(* returned tree, not on the steps of walkDir.                             *)
(***************************************************************************)
\* every node of a tree, at any depth, parents before children
RECURSIVE FlattenNodes(_)
FlattenNodes(nodes) ==
  IF nodes = << >> THEN << >>
  ELSE LET n == Head(nodes) IN
    <<n>> \o (IF n.type = "directory" THEN FlattenNodes(n.children) ELSE << >>)
        \o FlattenNodes(Tail(nodes))

\* the path of entry j: the walked directory, then the names down to j
RECURSIVE EntryFullPath(_, _, _)
EntryFullPath(f, d, j) ==
  IF j = 0 THEN d ELSE PathJoin(EntryFullPath(f, d, f[j].parent), f[j].name)

EntryRelPath(j) == PathRelative(Cwd, EntryFullPath(fs, dir, j))

MatchesToken(path) == \E t \in 1..Len(excludes) : Includes(path, excludes[t])

Visited(j) == \E k \in 1..Len(walk.visited) : walk.visited[k] = j

WalkedNodes == FlattenNodes(walk.files)

HasFileNode(j) ==
  \E k \in 1..Len(WalkedNodes) :
    /\ WalkedNodes[k].type = "file"
    /\ WalkedNodes[k].path = EntryRelPath(j)
    /\ WalkedNodes[k].name = fs[j].name
    /\ WalkedNodes[k].content = fs[j].content

HasFileNodeAt(j) ==
  \E k \in 1..Len(WalkedNodes) :
    WalkedNodes[k].type = "file" /\ WalkedNodes[k].path = EntryRelPath(j)

HasDirectoryNode(j, children) ==
  \E k \in 1..Len(WalkedNodes) :
    /\ WalkedNodes[k].type = "directory"
    /\ WalkedNodes[k].path = EntryRelPath(j)
    /\ WalkedNodes[k].name = fs[j].name
    /\ WalkedNodes[k].children = children

\* C1: after walkDir, no node of the returned tree, at any depth, has a path
\* that contains an exclusion token as a substring.
C1_NoNodePathContainsToken ==
  phase = "walked" =>
    \A k \in 1..Len(WalkedNodes) : ~MatchesToken(WalkedNodes[k].path)

\* C1 witness: a walk that excluded an entry and still returned a nested node
C1_Witness ==
  /\ phase = "walked"
  /\ \E j \in 1..Len(fs) : Visited(j) /\ MatchesToken(EntryRelPath(j))
  /\ \E k \in 1..Len(walk.files) :
       walk.files[k].type = "directory" /\ walk.files[k].children # << >>

\* C2: a non-directory entry has a File node in the tree exactly when the
\* walk came to it, its path matched no token, its stat succeeded, its size
\* is at most fileSizeLimit, it is not binary and its read succeeded; the
\* node carries the entry's name, path and content.  (An entry the walk never
\* comes to is never stat'ed or read, and has no node.)
C2_FileNodeIffPassed ==
  phase = "walked" =>
    \A j \in 1..Len(fs) :
      ~fs[j].isDir =>
        /\ HasFileNodeAt(j) <=>
             /\ Visited(j)
             /\ ~MatchesToken(EntryRelPath(j))
             /\ fs[j].statOk
             /\ fs[j].size <= fileSizeLimit
             /\ fs[j].bin = "text"
             /\ fs[j].readOk
        /\ HasFileNodeAt(j) => HasFileNode(j)

\* C2 witness: a file of exactly fileSizeLimit bytes was kept, one over the
\* limit was listed
C2_Witness ==
  /\ phase = "walked"
  /\ \E j \in 1..Len(fs) :
       ~fs[j].isDir /\ fs[j].size = fileSizeLimit /\ HasFileNode(j)
  /\ \E j \in 1..Len(fs) :
       ~fs[j].isDir /\ Visited(j) /\ fs[j].statOk /\ fs[j].size > fileSizeLimit

\* the ancestors of entry j from the top-level one down to j itself
RECURSIVE Chain(_, _)
Chain(f, j) == IF j = 0 THEN << >> ELSE Append(Chain(f, f[j].parent), j)

\* a comes before b in a depth-first pre-order walk of the listings: a is an
\* ancestor of b, or where their chains part a's side was listed first
RECURSIVE ChainBefore(_, _)
ChainBefore(a, b) ==
  IF a = << >> THEN b # << >>
  ELSE IF b = << >> THEN FALSE
  ELSE IF Head(a) = Head(b) THEN ChainBefore(Tail(a), Tail(b))
  ELSE Head(a) < Head(b)

PreOrderBefore(i, j) == ChainBefore(Chain(fs, i), Chain(fs, j))

NodeNames(nodes) == [k \in 1..Len(nodes) |-> nodes[k].name]

ListingNames(i) == LET l == Readdir(fs, i) IN [k \in 1..Len(l) |-> fs[l[k]].name]

EntryNamed(i, name) == CHOOSE j \in 1..Len(fs) : fs[j].parent = i /\ fs[j].name = name

\* the nodes are the listing of directory i with some entries left out, in
\* the listing's order, and so on below every Directory node
RECURSIVE InListingOrder(_, _)
InListingOrder(nodes, i) ==
  /\ NodeNames(nodes) =
       SelectSeq(ListingNames(i),
                 LAMBDA n : \E k \in 1..Len(nodes) : nodes[k].name = n)
  /\ \A k \in 1..Len(nodes) :
       nodes[k].type = "directory" =>
         InListingOrder(nodes[k].children, EntryNamed(i, nodes[k].name))

\* C5: walkDir visits the entries in depth-first pre-order of the listings,
\* and the top-level sequence and every Directory node's children are in
\* listing order with the omitted entries removed.
C5_PreOrderAndListingOrder ==
  phase = "walked" =>
    /\ \A p, q \in 1..Len(walk.visited) :
         p < q => PreOrderBefore(walk.visited[p], walk.visited[q])
    /\ InListingOrder(walk.files, 0)

\* C5 witness: a directory with a child, then a later sibling that sorts
\* before it, and all three visited
C5_Witness ==
  /\ phase = "walked"
  /\ Len(walk.files) = 2
  /\ walk.files[1].type = "directory"
  /\ walk.files[1].name = <<"b">>
  /\ walk.files[1].children # << >>
  /\ walk.files[2].name = <<"a", "g">>
  /\ Len(walk.visited) = 3

\* the walk gets to entry j: the directories above it were listed
RECURSIVE Reachable(_)
Reachable(j) ==
  LET p == fs[j].parent IN
    IF p = 0 THEN walk.listed
    ELSE /\ Reachable(p)
         /\ ~MatchesToken(EntryRelPath(p))
         /\ fs[p].statOk /\ fs[p].isDir /\ fs[p].listOk

\* C6: walkDir returns normally whatever fails; every entry below listed
\* directories is visited, whatever failed before it; a directory whose
\* listing fails gives a Directory node with no children (the walked
\* directory itself: an empty sequence).
C6_FailuresAbsorbed ==
  phase = "walked" =>
    /\ ~walk.threw
    /\ \A j \in 1..Len(fs) : Reachable(j) => Visited(j)
    /\ \A j \in 1..Len(fs) :
         (/\ Reachable(j) /\ ~MatchesToken(EntryRelPath(j))
          /\ fs[j].isDir /\ ~fs[j].listOk)
           => HasDirectoryNode(j, << >>)
    /\ ~walk.listed => walk.files = << >>

\* C6 witness: a directory whose listing failed is in the tree with no
\* children, and a sibling listed after it is in the tree too
C6_Witness ==
  /\ phase = "walked"
  /\ \E p, q \in 1..Len(walk.visited) :
       /\ p < q
       /\ fs[walk.visited[p]].isDir /\ ~fs[walk.visited[p]].listOk
       /\ HasDirectoryNode(walk.visited[p], << >>)
       /\ fs[walk.visited[q]].parent = fs[walk.visited[p]].parent
       /\ ~fs[walk.visited[q]].isDir /\ HasFileNode(walk.visited[q])

(***************************************************************************)
(* buildTxtOutput (lines 184-194).                                         *)
(***************************************************************************)
TxtHeaderOpen == <<"-", "-", "-", " ", "F", "I", "L", "E", ":", " ">>
TxtHeaderClose == <<" ", "-", "-", "-">>

\* faulty variant of TxtHeader: the header line is not ended
TxtHeaderNoNewline(path) == TxtHeaderOpen \o path \o TxtHeaderClose

\* line 189: `--- FILE: ${path.join(parentPath, node.name)} ---\n`
TxtHeader(path) == TxtHeaderOpen \o path \o TxtHeaderClose \o <<NL>>

\* line 190: node.content + '\n'
TxtBody(content) == content \o <<NL>>

\* lines 185-192: the pieces pushed on the shared array output
RECURSIVE TxtPieces(_, _, _)
TxtPieces(files, output, parentPath) ==
  IF files = << >> THEN output
  ELSE LET node == Head(files) IN
    IF node.type = "directory"
      THEN TxtPieces(Tail(files),
                     TxtPieces(node.children, output, PathJoin(parentPath, node.name)),
                     parentPath)
      ELSE TxtPieces(Tail(files),
                     output \o <<TxtHeader(PathJoin(parentPath, node.name)),
                                 TxtBody(node.content)>>,
                     parentPath)

\* buildTxtOutput(files): output.join('') (line 193)
buildTxtOutput(files) == Concat(TxtPieces(files, << >>, << >>))

(***************************************************************************)
(* buildXmlTree (lines 170-182).  The document is the tree of elements the *)
(* calls of ele and txt build; root.end serializes it.                     *)
(***************************************************************************)
TextNode(data) == [kind |-> "text", data |-> data]

Element(tag, attrs, children) ==
  [kind |-> "element", tag |-> tag, attrs |-> attrs, children |-> children]

\* faulty variant of FileElement: the path attribute is given the node's name
FileElementPathIsName(node) ==
  Element("file", <<<<"name", node.name>>, <<"path", node.name>>>>,
          <<TextNode(node.content)>>)

\* line 176: xmlParent.ele('file', {name, path}).txt(node.content)
FileElement(node) ==
  Element("file", <<<<"name", node.name>>, <<"path", node.path>>>>,
          <<TextNode(node.content)>>)

\* lines 171-178: buildNode, giving the element it adds to xmlParent
RECURSIVE buildNode(_)
buildNode(node) ==
  IF node.type = "directory"
    THEN Element("directory", <<<<"name", node.name>>, <<"path", node.path>>>>,
                 [k \in 1..Len(node.children) |-> buildNode(node.children[k])])
    ELSE FileElement(node)

\* lines 179-180: the repository root and one buildNode per top-level node
XmlDocument(files) ==
  Element("repository", << >>, [k \in 1..Len(files) |-> buildNode(files[k])])

(***************************************************************************)
(* The markup library: root.end({ prettyPrint: true }) (line 181) and the  *)
(* reading back of its output.  Text and attribute values are escaped      *)
(* character by character; the output is kept as a sequence of tags and    *)
(* character data.                                                         *)
(***************************************************************************)
AMP == "&"
Entity(name) == <<AMP>> \o name \o <<";">>

EscapeChar(c, inAttr) ==
  IF c = AMP THEN Entity(<<"a", "m", "p">>)
  ELSE IF c = "<" THEN Entity(<<"l", "t">>)
  ELSE IF c = ">" THEN Entity(<<"g", "t">>)
  ELSE IF inAttr /\ c = "\"" THEN Entity(<<"q", "u", "o", "t">>)
  ELSE <<c>>

Escape(s, inAttr) == Concat([k \in 1..Len(s) |-> EscapeChar(s[k], inAttr)])

EntityChar(name) ==
  IF name = <<"a", "m", "p">> THEN AMP
  ELSE IF name = <<"l", "t">> THEN "<"
  ELSE IF name = <<"g", "t">> THEN ">"
  ELSE IF name = <<"q", "u", "o", "t">> THEN "\""
  ELSE "?"

\* the characters of s with every entity reference replaced
RECURSIVE Unescape(_, _, _)
Unescape(s, ref, inRef) ==
  IF s = << >> THEN << >>
  ELSE IF inRef THEN
    (IF Head(s) = ";" THEN <<EntityChar(ref)>> \o Unescape(Tail(s), << >>, FALSE)
     ELSE Unescape(Tail(s), Append(ref, Head(s)), TRUE))
  ELSE IF Head(s) = AMP THEN Unescape(Tail(s), << >>, TRUE)
  ELSE <<Head(s)>> \o Unescape(Tail(s), << >>, FALSE)

Indent(depth) == <<NL>> \o [k \in 1..(2 * depth) |-> " "]

EscapeAttrs(attrs) ==
  [k \in 1..Len(attrs) |-> <<attrs[k][1], Escape(attrs[k][2], TRUE)>>]

IsTextOnly(el) ==
  el.children # << >> /\ \A k \in 1..Len(el.children) : el.children[k].kind = "text"

\* the pretty-printed output: an element with no children is one empty tag;
\* one holding only text keeps it on its line; child elements go on lines of
\* their own, indented
RECURSIVE Serialize(_, _)
Serialize(el, depth) ==
  IF el.children = << >>
    THEN <<[kind |-> "empty", tag |-> el.tag, attrs |-> EscapeAttrs(el.attrs)]>>
  ELSE IF IsTextOnly(el)
    THEN <<[kind |-> "open", tag |-> el.tag, attrs |-> EscapeAttrs(el.attrs)]>>
         \o [k \in 1..Len(el.children) |->
               [kind |-> "chars", data |-> Escape(el.children[k].data, FALSE)]]
         \o <<[kind |-> "close", tag |-> el.tag]>>
  ELSE <<[kind |-> "open", tag |-> el.tag, attrs |-> EscapeAttrs(el.attrs)]>>
       \o Concat([k \in 1..Len(el.children) |->
                   <<[kind |-> "chars", data |-> Indent(depth + 1)]>>
                   \o Serialize(el.children[k], depth + 1)])
       \o <<[kind |-> "chars", data |-> Indent(depth)],
            [kind |-> "close", tag |-> el.tag]>>

\* buildXmlTree(files)
\* line 179: create({ version: '1.0', encoding: 'UTF-8' })
XmlDeclaration ==
  [kind |-> "declaration", version |-> <<"1", ".", "0">>,
   encoding |-> <<"U", "T", "F", "-", "8">>]

\* buildXmlTree(files)
buildXmlTree(files) ==
  LET doc == XmlDocument(files)
  IN [doc |-> doc, text |-> <<XmlDeclaration>> \o Serialize(doc, 0)]

(***************************************************************************)
(* Reading a serialized document back as a tree of elements.               *)
(***************************************************************************)
RECURSIVE ParseContent(_, _)
\* the children up to the matching close tag: [children, rest]
ParseContent(tokens, children) ==
  LET t == Head(tokens) IN
    IF t.kind = "close" THEN [children |-> children, rest |-> Tail(tokens)]
    ELSE IF t.kind = "chars"
      THEN ParseContent(Tail(tokens), Append(children, TextNode(Unescape(t.data, << >>, FALSE))))
    ELSE IF t.kind = "empty"
      THEN ParseContent(Tail(tokens),
                        Append(children, Element(t.tag,
                          [k \in 1..Len(t.attrs) |->
                             <<t.attrs[k][1], Unescape(t.attrs[k][2], << >>, FALSE)>>],
                          << >>)))
    ELSE LET inner == ParseContent(Tail(tokens), << >>)
         IN ParseContent(inner.rest,
                         Append(children, Element(t.tag,
                           [k \in 1..Len(t.attrs) |->
                              <<t.attrs[k][1], Unescape(t.attrs[k][2], << >>, FALSE)>>],
                           inner.children)))

\* the root element of a serialized document
ParseDocument(text) ==
  LET body == Tail(text) \o <<[kind |-> "close", tag |-> "#document"]>>
  IN ParseContent(body, << >>).children

AttrOf(el, name) ==
  LET k == CHOOSE k \in 1..Len(el.attrs) : el.attrs[k][1] = name IN el.attrs[k][2]

ElementsOf(children) == SelectSeq(children, LAMBDA c : c.kind = "element")

TextOf(children) ==
  LET ts == SelectSeq(children, LAMBDA c : c.kind = "text")
  IN Concat([k \in 1..Len(ts) |-> ts[k].data])

\* the tree of Directory and File nodes an element sequence stands for
RECURSIVE NodesOfElements(_)
NodesOfElements(els) ==
  [k \in 1..Len(els) |->
     IF els[k].tag = "directory"
       THEN DirectoryNode(AttrOf(els[k], "name"), AttrOf(els[k], "path"),
                          NodesOfElements(ElementsOf(els[k].children)))
       ELSE FileNode(AttrOf(els[k], "name"), AttrOf(els[k], "path"),
                     TextOf(els[k].children))]

RECURSIVE TagsMatch(_, _)
\* element k is a directory element for a Directory node, a file element
\* for a File node, with exactly the attributes name and path
TagsMatch(els, nodes) ==
  /\ Len(els) = Len(nodes)
  /\ \A k \in 1..Len(els) :
       /\ els[k].tag = nodes[k].type
       /\ Len(els[k].attrs) = 2
       /\ els[k].attrs[1][1] = "name" /\ els[k].attrs[2][1] = "path"
       /\ nodes[k].type = "directory" =>
            TagsMatch(ElementsOf(els[k].children), nodes[k].children)

(***************************************************************************)
(* Serializer runs: walkDir on a directory of readable text files, then    *)
(* one of the two serializers, as main does at lines 232-241.              *)
(***************************************************************************)
\* DEFAULT_EXCLUDES (line 16)
DEFAULT_EXCLUDES ==
  << <<"n", "o", "d", "e", "_", "m", "o", "d", "u", "l", "e", "s">>,
     <<".", "g", "i", "t">>,
     <<".", "D", "S", "_", "S", "t", "o", "r", "e">> >>
\* DEFAULT_FILE_SIZE_LIMIT (line 17)
DEFAULT_FILE_SIZE_LIMIT == 1048576

SrcName == <<"s", "r", "c">>
ATxtName == <<"a", ".", "t", "x", "t">>
Hello == <<"h", "e", "l", "l", "o">>

\* names: the scenario's two, and one with characters the markup escapes
SerNames == {SrcName, ATxtName, <<"q", "\"", "&">>}
\* bodies: the scenario's, an empty one, and one of markup characters and
\* text that reads as an entity reference
SerContents == {Hello, << >>, <<"<", "&", "l", "t", ";", ">">>}
SerRoots == {TempDir, DOT}

CreateTextFile(bound, names, contents) ==
  /\ phase = "setup"
  /\ Len(fs) < bound
  /\ \E p \in Parents(fs) :
       \E n \in names \ SiblingNames(fs, p) : \E c \in contents :
         fs' = Append(fs, FileEntry(p, n, TRUE, "text", TRUE, c))
  /\ UNCHANGED <<dir, excludes, fileSizeLimit, phase, walk, txt, xml>>
  /\ UNCHANGED mainVars

\* lines 235-237
BuildTxt ==
  /\ phase = "walked"
  /\ txt' = buildTxtOutput(walk.files)
  /\ phase' = "txt"
  /\ UNCHANGED <<fs, dir, excludes, fileSizeLimit, walk, xml>>
  /\ UNCHANGED mainVars

\* lines 238-241
BuildXml ==
  /\ phase = "walked"
  /\ xml' = buildXmlTree(walk.files)
  /\ phase' = "xml"
  /\ UNCHANGED <<fs, dir, excludes, fileSizeLimit, walk, txt>>
  /\ UNCHANGED mainVars

SerInit == CoreInit(SerRoots, {DEFAULT_EXCLUDES}, {DEFAULT_FILE_SIZE_LIMIT})

SerNext ==
  \/ CreateTextFile(MaxSerNodes, SerNames, SerContents)
  \/ CreateDirectory(MaxSerNodes, SerNames, {TRUE})
  \/ RunWalkDir({TRUE})
  \/ BuildTxt
  \/ BuildXml

SpecSer == SerInit /\ [][SerNext]_vars

(***************************************************************************)
(* The serializer claims.                                                  *)
(***************************************************************************)
\* the File nodes of a tree in depth-first pre-order, each with the names
\* from the top-level node down to it
RECURSIVE FilesWithNames(_, _)
FilesWithNames(nodes, above) ==
  IF nodes = << >> THEN << >>
  ELSE LET n == Head(nodes) IN
    (IF n.type = "directory"
       THEN FilesWithNames(n.children, Append(above, n.name))
       ELSE <<[names |-> Append(above, n.name), node |-> n]>>)
    \o FilesWithNames(Tail(nodes), above)

HeaderLine(path) == TxtHeaderOpen \o path \o TxtHeaderClose

\* the tree of the scenario: src/a.txt holding "hello" and nothing else
ScenarioTree ==
  /\ Len(walk.files) = 1
  /\ walk.files[1].type = "directory" /\ walk.files[1].name = SrcName
  /\ Len(walk.files[1].children) = 1
  /\ walk.files[1].children[1].type = "file"
  /\ walk.files[1].children[1].name = ATxtName
  /\ walk.files[1].children[1].content = Hello

ScenarioHeader ==
  TxtHeaderOpen \o SrcName \o <<SLASH>> \o ATxtName \o TxtHeaderClose

\* C3 as claimed: each File node, in pre-order, gives the header line, a
\* newline, the content and then the two characters \n\n; the scenario's
\* output is `--- FILE: src/a.txt ---\nhello\n\n`.
C3_BlockEndsWithTwoNewlines ==
  phase = "txt" =>
    LET fl == FilesWithNames(walk.files, << >>) IN
      /\ txt = Concat([k \in 1..Len(fl) |->
                  HeaderLine(JoinSegs(fl[k].names)) \o <<NL>>
                    \o fl[k].node.content \o <<NL, NL>>])
      /\ ScenarioTree => txt = ScenarioHeader \o <<NL>> \o Hello \o <<NL, NL>>

\* C3 as amended: each File node, in pre-order, and nothing for Directory
\* nodes, gives the header line, a newline, the content and then one \n;
\* the scenario's output is `--- FILE: src/a.txt ---\nhello\n`.
C3_BlockEndsWithOneNewline ==
  phase = "txt" =>
    LET fl == FilesWithNames(walk.files, << >>) IN
      /\ txt = Concat([k \in 1..Len(fl) |->
                  HeaderLine(JoinSegs(fl[k].names)) \o <<NL>>
                    \o fl[k].node.content \o <<NL>>])
      /\ ScenarioTree => txt = ScenarioHeader \o <<NL>> \o Hello \o <<NL>>

\* C3 witness: the scenario's tree, serialized as text
C3_Witness == phase = "txt" /\ ScenarioTree

C10_HeaderPathIsNodePath ==
  phase = "txt" =>
    LET fl == FilesWithNames(walk.files, << >>) IN
      txt = Concat([k \in 1..Len(fl) |->
              HeaderLine(fl[k].node.path) \o <<NL>> \o fl[k].node.content \o <<NL>>])

(***************************************************************************)
(* main (lines 196-291) and runApp (lines 293-312).  main runs from one    *)
(* awaited prompt to the next; a step is the answer to the prompt awaited  *)
(* and the code up to the next await.                                      *)
(***************************************************************************)
\* the source directory of a session run: src/a.txt holding "hello", and .git
ScenarioFs ==
  << DirEntry(0, SrcName, TRUE),
     DirEntry(0, <<".", "g", "i", "t">>, TRUE),
     FileEntry(1, ATxtName, TRUE, "text", TRUE, Hello) >>

\* the selections of the exclusion checkbox and the size limits entered
ExcludeAnswers == {DEFAULT_EXCLUDES, << >>}
SizeLimitAnswers == {DEFAULT_FILE_SIZE_LIMIT, 1}

MainPrompts ==
  {"source", "url", "auth", "localPath", "excludes", "sizeLimit", "format",
   "outDirChoice", "customDir", "outFile"}

\* main is between its first line and its return
InMain == pc \in MainPrompts \/ pc = "cloning"

\* faulty variant of MainCatchesAll: main without the try block, as in the earlier
\* main kept at lines 425-457
MainCatchesNothing == FALSE

\* lines 197 and 288-290: the try block around all of main
MainCatchesAll == TRUE

\* faulty variant of CloneFailureReturns: the catch block logs and falls through
CloneFailureFallsThrough == FALSE

\* line 223: the return in the catch block of git.clone
CloneFailureReturns == TRUE

\* main returns: runApp goes on to its prompt (line 297)
MainReturns(how) ==
  /\ pc' = "nextAction"
  /\ ending' = how

\* an exception inside main: caught at line 288, or leaving main and runApp
MainThrows ==
  IF MainCatchesAll THEN MainReturns("fatal")
  ELSE pc' = "crashed" /\ ending' = "uncaught"

\* line 198
AnswerSource ==
  /\ pc = "source"
  /\ \E src \in {"Clone from GitHub", "Use local path"} :
       /\ source' = src
       /\ pc' = IF src = "Clone from GitHub" THEN "url" ELSE "localPath"
  /\ UNCHANGED <<runNo, urlValid, repoPath, tempExists, localDirs, cloned,
                 sourceFailed, walkCalls, serCalls, written, ending>>
  /\ UNCHANGED coreVars

\* line 201
AnswerUrl ==
  /\ pc = "url"
  /\ urlValid' \in BOOLEAN
  /\ pc' = "auth"
  /\ UNCHANGED <<runNo, source, repoPath, tempExists, localDirs, cloned,
                 sourceFailed, walkCalls, serCalls, written, ending>>
  /\ UNCHANGED coreVars

\* lines 202-220: the answer to promptAuth, the removal of an old temp_repo
\* (which may throw), the url check when credentials were given, and the
\* start of git.clone
AnswerAuth ==
  /\ pc = "auth"
  /\ \E auth \in BOOLEAN, rmThrows \in BOOLEAN :
       IF tempExists /\ rmThrows
         THEN /\ MainThrows
              /\ UNCHANGED <<tempExists, sourceFailed>>
       ELSE /\ tempExists' = FALSE
            /\ IF auth /\ ~urlValid
                 THEN /\ sourceFailed' = TRUE
                      /\ MainReturns("invalid url")
                 ELSE /\ pc' = "cloning"
                      /\ UNCHANGED <<sourceFailed, ending>>
  /\ UNCHANGED <<runNo, source, urlValid, repoPath, localDirs, cloned,
                 walkCalls, serCalls, written>>
  /\ UNCHANGED coreVars

\* lines 220-225: git.clone settles; a url that is no url cannot be cloned
CloneSettles ==
  /\ pc = "cloning"
  /\ \/ /\ urlValid
        /\ tempExists' = TRUE
        /\ cloned' = TRUE
        /\ repoPath' = TempDir
        /\ pc' = "excludes"
        /\ UNCHANGED <<sourceFailed, ending>>
     \/ /\ sourceFailed' = TRUE
        /\ IF CloneFailureReturns
             THEN /\ MainReturns("clone failed")
                  /\ UNCHANGED repoPath
             ELSE /\ repoPath' = TempDir
                  /\ pc' = "excludes"
                  /\ UNCHANGED ending
        /\ UNCHANGED <<tempExists, cloned>>
  /\ UNCHANGED <<runNo, source, urlValid, localDirs, walkCalls, serCalls, written>>
  /\ UNCHANGED coreVars

\* line 227: promptLocalPath accepts only a path that exists (line 72)
AnswerLocalPath ==
  /\ pc = "localPath"
  /\ \E p \in localDirs : repoPath' = p
  /\ pc' = "excludes"
  /\ UNCHANGED <<runNo, source, urlValid, tempExists, localDirs, cloned,
                 sourceFailed, walkCalls, serCalls, written, ending>>
  /\ UNCHANGED coreVars

\* line 229
AnswerExcludes ==
  /\ pc = "excludes"
  /\ excludes' \in ExcludeAnswers
  /\ pc' = "sizeLimit"
  /\ UNCHANGED <<fs, dir, fileSizeLimit, phase, walk, txt, xml>>
  /\ UNCHANGED <<runNo, source, urlValid, repoPath, tempExists, localDirs, cloned,
                 sourceFailed, walkCalls, serCalls, written, ending>>

\* lines 230-233: the size limit is answered and walkDir runs
AnswerFileSizeLimit ==
  /\ pc = "sizeLimit"
  /\ \E limit \in SizeLimitAnswers, listOk \in BOOLEAN :
       /\ fileSizeLimit' = limit
       /\ walk' = WalkResult(fs, listOk, repoPath, excludes, limit)
  /\ dir' = repoPath
  /\ walkCalls' = walkCalls + 1
  /\ IF walk'.threw THEN MainThrows ELSE pc' = "format" /\ UNCHANGED ending
  /\ UNCHANGED <<fs, excludes, phase, txt, xml>>
  /\ UNCHANGED <<runNo, source, urlValid, repoPath, tempExists, localDirs, cloned,
                 sourceFailed, serCalls, written>>

\* lines 233-243: the format is answered and one serializer runs
AnswerOutputFormat ==
  /\ pc = "format"
  /\ \/ /\ txt' = buildTxtOutput(walk.files)
        /\ UNCHANGED xml
     \/ /\ xml' = buildXmlTree(walk.files)
        /\ UNCHANGED txt
  /\ serCalls' = serCalls + 1
  /\ pc' = "outDirChoice"
  /\ UNCHANGED <<fs, dir, excludes, fileSizeLimit, phase, walk>>
  /\ UNCHANGED <<runNo, source, urlValid, repoPath, tempExists, localDirs, cloned,
                 sourceFailed, walkCalls, written, ending>>

\* lines 243-268
AnswerOutDirChoice ==
  /\ pc = "outDirChoice"
  /\ pc' \in {"outFile", "customDir"}
  /\ UNCHANGED <<runNo, source, urlValid, repoPath, tempExists, localDirs, cloned,
                 sourceFailed, walkCalls, serCalls, written, ending>>
  /\ UNCHANGED coreVars

\* lines 259-267
AnswerCustomDir ==
  /\ pc = "customDir"
  /\ pc' = "outFile"
  /\ UNCHANGED <<runNo, source, urlValid, repoPath, tempExists, localDirs, cloned,
                 sourceFailed, walkCalls, serCalls, written, ending>>
  /\ UNCHANGED coreVars

\* line 280: repoPath.endsWith('temp_repo')
IsTempRepo(path) == EndsWith(path, TempRepoName)

\* lines 269-287: the file name is answered, the output is written (or the
\* write fails and is logged), and a repoPath ending in temp_repo is removed
\* (or the removal fails and is logged); main returns
AnswerOutFile ==
  /\ pc = "outFile"
  /\ \E writeOk \in BOOLEAN, rmOk \in BOOLEAN :
       /\ written' = writeOk
       /\ IF IsTempRepo(repoPath) /\ rmOk
            THEN /\ tempExists' = IF repoPath = TempDir THEN FALSE ELSE tempExists
                 /\ localDirs' = localDirs \ {repoPath}
            ELSE UNCHANGED <<tempExists, localDirs>>
       /\ MainReturns(IF writeOk THEN "success" ELSE "write failed")
  /\ UNCHANGED <<runNo, source, urlValid, repoPath, cloned, sourceFailed,
                 walkCalls, serCalls>>
  /\ UNCHANGED coreVars

\* an awaited prompt of main rejects
PromptRejects ==
  /\ pc \in MainPrompts
  /\ MainThrows
  /\ UNCHANGED <<runNo, source, urlValid, repoPath, tempExists, localDirs, cloned,
                 sourceFailed, walkCalls, serCalls, written>>
  /\ UNCHANGED coreVars

\* lines 297-310: 'Transform another repo' calls main again, with fresh
\* locals; 'Exit' leaves the loop
AnswerNextAction ==
  /\ pc = "nextAction"
  /\ \/ /\ runNo < MaxRuns
        /\ pc' = "source"
        /\ runNo' = runNo + 1
        /\ source' = ""
        /\ urlValid' = FALSE
        /\ repoPath' = << >>
        /\ cloned' = FALSE
        /\ sourceFailed' = FALSE
        /\ walkCalls' = 0
        /\ serCalls' = 0
        /\ written' = FALSE
        /\ ending' = ""
        /\ walk' = NoWalk
        /\ txt' = << >>
        /\ xml' = NoXml
        /\ dir' = << >>
        /\ excludes' = << >>
        /\ fileSizeLimit' = DEFAULT_FILE_SIZE_LIMIT
        /\ UNCHANGED <<fs, phase>>
     \/ /\ pc' = "exited"
        /\ UNCHANGED <<runNo, source, urlValid, repoPath, cloned, sourceFailed,
                       walkCalls, serCalls, written, ending>>
        /\ UNCHANGED coreVars
  /\ UNCHANGED <<tempExists, localDirs>>

\* line 297: runApp's own prompt rejects, outside any try block
NextActionRejects ==
  /\ pc = "nextAction"
  /\ pc' = "crashed"
  /\ UNCHANGED <<runNo, source, urlValid, repoPath, tempExists, localDirs, cloned,
                 sourceFailed, walkCalls, serCalls, written, ending>>
  /\ UNCHANGED coreVars

\* runApp() (line 314): the first run of main, in a working directory that
\* may hold a temp_repo left by an earlier session
MainInit ==
  /\ fs = ScenarioFs
  /\ dir = << >>
  /\ excludes = << >>
  /\ fileSizeLimit = DEFAULT_FILE_SIZE_LIMIT
  /\ phase = "session"
  /\ walk = NoWalk
  /\ txt = << >>
  /\ xml = NoXml
  /\ pc = "source"
  /\ runNo = 1
  /\ source = ""
  /\ urlValid = FALSE
  /\ repoPath = << >>
  /\ tempExists \in BOOLEAN
  /\ localDirs = LocalPaths
  /\ cloned = FALSE
  /\ sourceFailed = FALSE
  /\ walkCalls = 0
  /\ serCalls = 0
  /\ written = FALSE
  /\ ending = ""

MainNext ==
  \/ AnswerSource
  \/ AnswerUrl
  \/ AnswerAuth
  \/ CloneSettles
  \/ AnswerLocalPath
  \/ AnswerExcludes
  \/ AnswerFileSizeLimit
  \/ AnswerOutputFormat
  \/ AnswerOutDirChoice
  \/ AnswerCustomDir
  \/ AnswerOutFile
  \/ PromptRejects
  \/ AnswerNextAction
  \/ NextActionRejects

SpecMain == MainInit /\ [][MainNext]_vars

(***************************************************************************)
(* The session claims.                                                     *)
(***************************************************************************)
\* C7: in a run whose clone failed or whose url was rejected, walkDir and
\* the serializers are never called, no output file is written, and main
\* has returned.
C7_NoCoreWithoutSource ==
  sourceFailed =>
    /\ walkCalls = 0
    /\ serCalls = 0
    /\ ~written
    /\ ~InMain

\* C7 witness: a second run, whose clone failed, has returned
C7_Witness ==
  /\ sourceFailed
  /\ ending = "clone failed"
  /\ pc = "nextAction"
  /\ runNo = 2

\* a run of main that has just been started
FreshRun ==
  /\ pc = "source"
  /\ source = "" /\ repoPath = << >>
  /\ ~cloned /\ ~sourceFailed
  /\ walkCalls = 0 /\ serCalls = 0 /\ ~written
  /\ ending = ""
  /\ walk = NoWalk /\ txt = << >> /\ xml = NoXml

\* C8: however a run of main ends, the next step of the session is runApp's
\* next-action prompt; from there 'Transform another repo' starts a fresh
\* run of main, 'Exit' ends the session, and nothing else leaves the prompt
\* but the prompt's own failure.
C8_RunEndOffersNextAction ==
  [][ /\ (InMain /\ ~InMain') => (pc' = "nextAction" /\ ending' # "")
      /\ (pc = "nextAction" /\ pc' # "nextAction") =>
           \/ FreshRun' /\ runNo' = runNo + 1
           \/ pc' = "exited"
           \/ pc' = "crashed"
      /\ pc = "exited" => pc' = "exited" ]_vars

\* C8 witness: a second run, started from the prompt, ended by an exception
\* and is followed by the prompt again
C8_Witness ==
  /\ pc = "nextAction"
  /\ ending = "fatal"
  /\ runNo = 2

\* C9: no directory given through 'Use local path' is ever removed, and when
\* a run that cloned successfully has ended, its temp_repo is gone.
C9_OnlyOwnCloneRemoved ==
  /\ localDirs = LocalPaths
  /\ (pc = "nextAction" /\ cloned) => ~tempExists

=============================================================================
